---- MODULE Spec2Model ----
(***************************************************************************)
(* Creative automation pipeline: CreativePipeline.process_campaign and the *)
(* collaborators it drives (AssetGenerator, TemplateEngine, VideoGenerator, *)
(* GoogleVeo3Generator, S3StorageManager).                                  *)
(*                                                                         *)
(* Remote services and the local file system are the environment: every    *)
(* call to them draws its outcome from a small set.  uuid.uuid4() is       *)
(* modelled as a value that names the call that drew it (run, slot, call   *)
(* site), i.e. as a value no other call can draw.                          *)
(***************************************************************************)
EXTENDS Integers, Sequences, FiniteSets, TLC

\* ---------------------------------------------------------------- bounds
MaxProducts == 2
MaxRatios == 3
MaxSlots == 2
MaxFallbackSlots == 1
MaxRerunSlots == 2
MaxTime == 1
MaxRuns == 2
MaxPromptCalls == 2

\* ------------------------------------------------------------ data model
SQUARE == "1:1"
VERTICAL == "9:16"
HORIZONTAL == "16:9"
AspectRatio == {SQUARE, VERTICAL, HORIZONTAL}

IMAGE == "image"
VIDEO == "video"
BOTH == "both"
ContentType == {IMAGE, VIDEO, BOTH}

YOUTUBE_SHORTS == "youtube_shorts"
INSTAGRAM_REELS == "instagram_reels"
TIKTOK == "tiktok"
STORY == "story"
VideoFormat == {YOUTUBE_SHORTS, INSTAGRAM_REELS, TIKTOK, STORY}

\* Optional values that are absent (Python None).
None == [kind |-> "none"]
\* An exception leaving the called function.
Raised == [kind |-> "raised"]

\* Content of a file on disk: a decoded image of a given size, the bytes a
\* server sent (never re-encoded), or a video with its encoding parameters.
Img(w, h) == [type |-> "image", width |-> w, height |-> h]
RawBytes == [type |-> "raw"]
Vid(d, w, h, f) == [type |-> "video", duration |-> d, width |-> w, height |-> h, fps |-> f]

\* The fixed size per ratio used by _resize_to_aspect_ratio and
\* _create_simple_image.
TargetSize(aspect_ratio) ==
    IF aspect_ratio = SQUARE THEN Img(1080, 1080)
    ELSE IF aspect_ratio = VERTICAL THEN Img(1080, 1920)
    ELSE Img(1920, 1080)

\* A function extended or overwritten at one point.
Put(f, k, v) == (k :> v) @@ f
Empty == [x \in {} |-> None]

\* ------------------------------------------------ AssetGenerator (images)
\* Outcome of the HTTP call to the image API.
AiOutcomes == {"url", "b64", "other", "http_error", "exception"}
\* Outcome of a download (GET + write + resize).
DlOutcomes == {"resized", "unresized", "http_error", "exception"}
\* Outcome of saving decoded bytes (write + resize).
SaveOutcomes == {"resized", "unresized", "exception"}
\* Outcome of the local placeholder synthesis (PIL save).
SimpleOutcomes == {"ok", "exception"}

GenEnv ==
    [ai : AiOutcomes, avatar_file : BOOLEAN, dl : DlOutcomes,
     save : SaveOutcomes, mock : DlOutcomes, simple : SimpleOutcomes,
     retry : SimpleOutcomes, mock2 : DlOutcomes, simple2 : SimpleOutcomes,
     retry2 : SimpleOutcomes]

GenInputs ==
    [api_key : BOOLEAN, fallback_mode : BOOLEAN,
     aspect_ratio : AspectRatio, avatar : BOOLEAN]

\* Result of a stage: what it returns, the stages it attempted (in order)
\* and the files it left on disk.
StageResult(ret, trace, files) == [ret |-> ret, trace |-> trace, files |-> files]

\* A value drawn from uuid.uuid4(): the call that drew it (run, product,
\* slot index), the call site and the attempt at that site.
Uuid(u, site, attempt) == [u |-> u, site |-> site, attempt |-> attempt]
NoId == Uuid(<<0, 0, 0>>, "", 0)

\* A file path: directory, kind of file name and the parts the name is
\* built from (parts a name does not contain are left at their defaults).
Path(dir, name, product, ratio, variation, id, format, ts) ==
    [kind |-> "path", dir |-> dir, name |-> name, product |-> product,
     ratio |-> ratio, variation |-> variation, id |-> id, format |-> format,
     ts |-> ts]

\* variation<N>_generated_<id>_<ratio>.jpg
GeneratedPath(variation_num, image_id, aspect_ratio) ==
    Path("temp_base_images", "generated", 0, aspect_ratio, variation_num, image_id, "", 0)

\* simple_<id>_<ratio>.jpg
SimplePath(image_id, aspect_ratio) ==
    Path("temp_base_images", "simple", 0, aspect_ratio, 0, image_id, "", 0)

\* _resize_to_aspect_ratio: the file becomes an image of the target size;
\* any error is logged and swallowed, leaving the file as it was written.
ResizeToAspectRatio(content, aspect_ratio, resize_ok) ==
    IF resize_ok THEN TargetSize(aspect_ratio) ELSE content

\* _download_image
DownloadImage(outcome, aspect_ratio, variation_num, image_id, stage) ==
    LET image_path == GeneratedPath(variation_num, image_id, aspect_ratio)
    IN IF outcome \in {"resized", "unresized"}
       THEN StageResult(image_path, <<stage>>,
                Put(Empty, image_path,
                    ResizeToAspectRatio(RawBytes, aspect_ratio, outcome = "resized")))
       ELSE StageResult(None, <<stage>>, Empty)

\* _save_generated_image
SaveGeneratedImage(outcome, aspect_ratio, variation_num, image_id) ==
    LET image_path == GeneratedPath(variation_num, image_id, aspect_ratio)
    IN IF outcome \in {"resized", "unresized"}
       THEN StageResult(image_path, <<"save_generated">>,
                Put(Empty, image_path,
                    ResizeToAspectRatio(RawBytes, aspect_ratio, outcome = "resized")))
       ELSE StageResult(None, <<"save_generated">>, Empty)

\* Sequential composition of a stage after a trace prefix.
After(prefix, r) == StageResult(r.ret, prefix \o r.trace, r.files)

\* _generate_with_dalle_3
GenerateWithDalle3(in, e, variation_num, u) ==
    IF e.ai = "url"
    THEN After(<<"dalle3">>,
               DownloadImage(e.dl, in.aspect_ratio, variation_num, Uuid(u, "ai", 1), "download_ai"))
    ELSE StageResult(None, <<"dalle3">>, Empty)

\* _generate_with_gpt_image_1
GenerateWithGptImage1(in, e, variation_num, u) ==
    IF ~e.avatar_file
    THEN StageResult(None, <<>>, Empty)
    ELSE IF e.ai = "b64"
    THEN After(<<"gpt_image_1">>,
               SaveGeneratedImage(e.save, in.aspect_ratio, variation_num, Uuid(u, "ai", 1)))
    ELSE IF e.ai = "url"
    THEN After(<<"gpt_image_1">>,
               DownloadImage(e.dl, in.aspect_ratio, variation_num, Uuid(u, "ai", 1), "download_ai"))
    ELSE StageResult(None, <<"gpt_image_1">>, Empty)

\* An AI stage that asks DALL-E 3 first and turns to the avatar-conditioned
\* model only after DALL-E 3 produced nothing.
GenerateWithDalleThenAvatar(in, e, variation_num, u) ==
    LET primary == GenerateWithDalle3(in, e, variation_num, u)
    IN IF primary.ret # None \/ ~(in.aspect_ratio = VERTICAL /\ in.avatar)
       THEN primary
       ELSE After(primary.trace, GenerateWithGptImage1(in, e, variation_num, u))

\* _generate_with_dalle
GenerateWithDalle(in, e, variation_num, u) ==
    IF in.aspect_ratio = VERTICAL /\ in.avatar
    THEN GenerateWithGptImage1(in, e, variation_num, u)
    ELSE GenerateWithDalle3(in, e, variation_num, u)

\* _create_simple_image
CreateSimpleImage(outcome, aspect_ratio, image_id) ==
    LET image_path == SimplePath(image_id, aspect_ratio)
    IN IF outcome = "ok"
       THEN StageResult(image_path, <<"simple">>,
                        Put(Empty, image_path, TargetSize(aspect_ratio)))
       ELSE StageResult(Raised, <<"simple">>, Empty)

\* _generate_mock_image (the download uses the default variation_num = 1).
\* The placeholder is synthesized inside the try block, so when it raises
\* the except block synthesizes it again (attempts 3 and 4 of the call
\* site are these second syntheses); an exception of the second one leaves
\* the method.
GenerateMockImage(dl, simple, retry, aspect_ratio, u, attempt) ==
    LET d == DownloadImage(dl, aspect_ratio, 1, Uuid(u, "mock", attempt), "download_mock")
        s == CreateSimpleImage(simple, aspect_ratio, Uuid(u, "simple", attempt))
        r == CreateSimpleImage(retry, aspect_ratio, Uuid(u, "simple", attempt + 2))
    IN IF d.ret # None
       THEN d
       ELSE IF s.ret # Raised
       THEN After(d.trace, s)
       ELSE StageResult(r.ret, d.trace \o s.trace \o <<"simple_retry">>, r.files)

\* The AI stage of generate_product_image: skipped without an API key.
AiStage(in, e, variation_num, u) ==
    IF in.api_key
    THEN GenerateWithDalle(in, e, variation_num, u)
    ELSE StageResult(None, <<>>, Empty)

\* A chain whose except block gives up with None instead of trying the
\* mock stage again.
FallbackChainGivesUp(in, ai, m1, m2) ==
    IF ai.ret # None
    THEN ai
    ELSE IF ~in.fallback_mode
    THEN StageResult(None, ai.trace, ai.files)
    ELSE IF m1.ret # Raised
    THEN StageResult(m1.ret, ai.trace \o m1.trace, m1.files @@ ai.files)
    ELSE StageResult(None, ai.trace \o m1.trace, m1.files @@ ai.files)

\* generate_product_image, given what its stages do: ai is the AI stage, m1
\* the mock stage of the try block, m2 the mock stage of the except block
\* (entered when m1 raised).
FallbackChain(in, ai, m1, m2) ==
    IF ai.ret # None
    THEN ai
    ELSE IF ~in.fallback_mode
    THEN StageResult(None, ai.trace, ai.files)
    ELSE IF m1.ret # Raised
    THEN StageResult(m1.ret, ai.trace \o m1.trace, m1.files @@ ai.files)
    ELSE StageResult(m2.ret, ai.trace \o m1.trace \o m2.trace,
                     m2.files @@ m1.files @@ ai.files)

\* generate_product_image under the environment e
GenerateProductImage(in, e, variation_num, u) ==
    FallbackChain(in, AiStage(in, e, variation_num, u),
                  GenerateMockImage(e.mock, e.simple, e.retry, in.aspect_ratio, u, 1),
                  GenerateMockImage(e.mock2, e.simple2, e.retry2, in.aspect_ratio, u, 2))

\* The environments of the AI stage and of a mock stage.  When the
\* collaborators are stubbed (free = FALSE) only the image API can fail.
AiEnv(free) ==
    IF free
    THEN [ai : AiOutcomes, avatar_file : BOOLEAN, dl : DlOutcomes, save : SaveOutcomes]
    ELSE [ai : {"url", "b64", "http_error"}, avatar_file : {TRUE},
          dl : {"resized"}, save : {"resized"}]

MockEnv(free) ==
    IF free
    THEN [mock : DlOutcomes, simple : SimpleOutcomes, retry : SimpleOutcomes]
    ELSE [mock : {"resized"}, simple : {"ok"}, retry : {"ok"}]

\* What the orchestrator can get back from one generate_product_image call:
\* the results of GenerateProductImage over every environment.
GenResults(in, variation_num, u, free) ==
    LET ais == {AiStage(in, a, variation_num, u) : a \in AiEnv(free)}
        m1s == {GenerateMockImage(m.mock, m.simple, m.retry, in.aspect_ratio, u, 1) : m \in MockEnv(free)}
        m2s == {GenerateMockImage(m.mock, m.simple, m.retry, in.aspect_ratio, u, 2) : m \in MockEnv(free)}
    IN {FallbackChain(in, ai, m1, m2) : ai \in ais, m1 \in m1s, m2 \in m2s}

\* ------------------------------------------------ AssetGenerator (prompts)
\* Text is a sequence of pieces: the literal parts of the f-strings and the
\* interpolated values.  A dict is a function from its keys; None and the
\* empty dict are both the function with no keys, an absent or None string
\* field is "".
NoDict == <<>>

Truthy(d) == DOMAIN d # {}

\* dict.get(key): the value, or None, which an f-string renders as "None".
Get(d, key) == IF key \in DOMAIN d THEN d[key] ELSE "None"

\* dict.get(key) used as a condition: a missing or empty value is false.
Has(d, key) == key \in DOMAIN d /\ d[key] # ""

\* ", ".join(items)
RECURSIVE Join(_)
Join(items) ==
    IF Len(items) = 0 THEN <<>>
    ELSE IF Len(items) = 1 THEN <<items[1]>>
    ELSE <<items[1], ", ">> \o Join(Tail(items))

\* str.lower() on the persona names of the briefs below.
Lower(s) ==
    IF s = "Athlete" THEN "athlete" ELSE s

\* Products the prompt builder is called with: one with only the required
\* fields, one with features and a target demographic.
PromptProducts ==
    <<[name |-> "Cap", description |-> "", category |-> "", features |-> <<>>,
       target_demographic |-> ""],
      [name |-> "Shoe", description |-> "light", category |-> "sport",
       features |-> <<"grip", "foam">>, target_demographic |-> "runners"]>>

\* Briefs the prompt builder is called with: without optional fields, with
\* a selected avatar, and with a persona, a custom prompt and a brand.
PromptBriefs ==
    <<[campaign_name |-> "Spring", campaign_id |-> "c1", target_region |-> "EU",
       target_audience |-> "adults", campaign_message |-> "", language |-> "",
       asset_params |-> NoDict, brand_guidelines |-> NoDict],
      [campaign_name |-> "Spring", campaign_id |-> "c1", target_region |-> "EU",
       target_audience |-> "adults", campaign_message |-> "Run", language |-> "en",
       asset_params |-> [selected_avatar |-> "avatar.png", persona |-> "Athlete"],
       brand_guidelines |-> [primary_color |-> "red", font_family |-> "Arial"]],
      [campaign_name |-> "Spring", campaign_id |-> "c1", target_region |-> "EU",
       target_audience |-> "adults", campaign_message |-> "Run", language |-> "de",
       asset_params |-> [persona |-> "Athlete", custom_prompt |-> "outdoors",
                         brand |-> "Acme"],
       brand_guidelines |-> NoDict]>>

\* The product and campaign part of the prompt.
BasePrompt(campaign_brief, product, aspect_ratio) ==
    LET asset_params == campaign_brief.asset_params
        brand == campaign_brief.brand_guidelines
    IN  <<"generate social media ad marketing post image to promote ", product.name,
          " for a social advertising campaign for ", campaign_brief.campaign_name>>
        \o (IF product.description # ""
            THEN <<" with a description: ", product.description>> ELSE <<>>)
        \o (IF product.category # ""
            THEN <<" in the ", product.category, " category">> ELSE <<>>)
        \o (IF Len(product.features) > 0
            THEN <<". Highlight key features: ">> \o Join(product.features) ELSE <<>>)
        \o (IF product.target_demographic # ""
            THEN <<". Target audience: ", product.target_demographic>> ELSE <<>>)
        \o <<". Campaign: \"", campaign_brief.campaign_name, "\" (",
             campaign_brief.campaign_id, ") for region ", campaign_brief.target_region,
             ", aimed at ", campaign_brief.target_audience, ".">>
        \o (IF campaign_brief.campaign_message # ""
            THEN <<" Main campaign message: \"", campaign_brief.campaign_message, "\".">>
            ELSE <<>>)
        \o (IF Truthy(asset_params) /\ aspect_ratio = VERTICAL
            THEN IF Has(asset_params, "selected_avatar")
                 THEN <<" Use the person from the provided avatar image as the model wearing/using the ",
                        product.name,
                        ". The person should be the main focus of the image, demonstrating the product in use. Maintain the same person's appearance, facial features, and characteristics from the reference image.">>
                 ELSE IF Has(asset_params, "persona")
                 THEN <<" Show a ", Lower(asset_params["persona"]),
                        " person wearing/using the ", product.name,
                        ". The person should be the main focus of the image, demonstrating the product in use. Style should appeal to ",
                        Lower(asset_params["persona"]), ".">>
                 ELSE <<>>
            ELSE <<>>)
        \o (IF Truthy(asset_params) /\ Has(asset_params, "custom_prompt")
            THEN <<" Additional context: ", asset_params["custom_prompt"], ".">>
            ELSE <<>>)
        \o (IF Truthy(asset_params) /\ Has(asset_params, "brand")
            THEN <<" Brand: ", asset_params["brand"], ". Apply ", asset_params["brand"],
                   " brand styling and guidelines.">>
            ELSE <<>>)
        \o (IF Truthy(brand)
            THEN <<" Follow brand guidelines: primary color ", Get(brand, "primary_color"),
                   ", secondary color ", Get(brand, "secondary_color"),
                   ", accent color ", Get(brand, "accent_color"),
                   ", font family ", Get(brand, "font_family"), ".">>
            ELSE <<>>)

\* Style descriptors that also name the number of the call.
StylePromptNumbered(self, campaign_brief, aspect_ratio) ==
    <<", clean minimal background, professional studio lighting, high quality, modern commercial photography style">>
    \o <<", variation ", ToString(self.calls)>>

\* The style descriptors, the composition of the aspect ratio and the
\* language.
StylePrompt(self, campaign_brief, aspect_ratio) ==
    <<", clean minimal background, professional studio lighting, high quality, modern commercial photography style">>
    \o (IF aspect_ratio = VERTICAL
        THEN <<", vertical composition suitable for mobile viewing, portrait orientation">>
        ELSE IF aspect_ratio = HORIZONTAL
        THEN <<", horizontal composition suitable for desktop viewing, landscape orientation, product-focused">>
        ELSE <<", square composition suitable for social media, balanced layout">>)
    \o (IF campaign_brief.language # ""
        THEN <<", text and style localized for ", campaign_brief.language>>
        ELSE <<>>)

\* _create_dalle_prompt: self is the generator the method is called on.
CreateDallePrompt(self, campaign_brief, product, aspect_ratio) ==
    BasePrompt(campaign_brief, product, aspect_ratio)
    \o StylePrompt(self, campaign_brief, aspect_ratio)

\* ------------------------------------------------- TemplateEngine (stages)
\* A stage of the compositor completes, raises after part of its drawing
\* is on the image, or raises before it changed the image.
StageOutcomes == {"ok", "partial", "raises"}

StageNames == <<"enhance", "overlay", "text", "brand">>

\* An image is the sequence of layers drawn on the base image.
Layer(name, complete) == [stage |-> name, complete |-> complete]

\* A stage without its own handler: its exception leaves the stage.
StageUnguarded(image, name, outcome) ==
    [image |-> IF outcome = "ok" THEN Append(image, Layer(name, TRUE))
               ELSE IF outcome = "partial" THEN Append(image, Layer(name, FALSE))
               ELSE image,
     raised |-> outcome # "ok"]

\* _enhance_image, _add_overlay_elements, _add_campaign_text and
\* _add_brand_elements: the body is in a try block whose handler logs the
\* error and returns the image as it is.
Stage(image, name, outcome) ==
    [image |-> IF outcome = "ok" THEN Append(image, Layer(name, TRUE))
               ELSE IF outcome = "partial" THEN Append(image, Layer(name, FALSE))
               ELSE image,
     raised |-> FALSE]

\* The inputs of one apply_template call: whether the base image opens,
\* the outcome of each stage and whether the save succeeds.
TmplInputs ==
    [open : {"ok", "raises"}, stages : [1..Len(StageNames) -> StageOutcomes],
     save : {"ok", "raises"}]

TmplResult(ret, image, written) ==
    [ret |-> ret, image |-> image, written |-> written, called |-> TRUE]

\* The stages from the i-th on, applied to the image in order; an exception
\* that leaves a stage skips the rest.
RECURSIVE RunStages(_, _, _)
RunStages(image, i, outcomes) ==
    IF i > Len(StageNames) THEN [image |-> image, raised |-> FALSE]
    ELSE LET r == Stage(image, StageNames[i], outcomes[i])
         IN IF r.raised THEN r ELSE RunStages(r.image, i + 1, outcomes)

\* apply_template: open the base image, run the four stages, save as JPEG;
\* any exception that reaches it is logged and False returned.
ApplyTemplate(in) ==
    IF in.open = "raises" THEN TmplResult(FALSE, <<>>, FALSE)
    ELSE LET r == RunStages(<<>>, 1, in.stages)
         IN IF r.raised \/ in.save = "raises"
            THEN TmplResult(FALSE, r.image, FALSE)
            ELSE TmplResult(TRUE, r.image, TRUE)

\* -------------------------------------------- TemplateEngine (translation)
\* Behaviours of the chat-completions endpoint during one post with a 30
\* second timeout: a 200 response with a choice, a 200 response whose body
\* has no choice, another status, a transport error, a timeout.
TranslateResponses == {"ok", "malformed", "status", "transport", "timeout"}

\* Languages of a brief: unset, the default "en", one with a name in the
\* language table, one without.
Languages == {"", "en", "de", "xx"}

CampaignMessages == {"Run", "Go"}

\* A rendered text: the message and the language it was translated to, ""
\* for the message as written in the brief.
Text(message, language) == [message |-> message, language |-> language]

TranslateResult(text, posts) == [text |-> text, posts |-> posts]

\* A translator that returns an empty text when the call fails.
TranslateOrBlank(text, target_language, api_key, response) ==
    IF ~api_key THEN TranslateResult(Text("", ""), 0)
    ELSE IF response = "ok"
    THEN TranslateResult(Text(text.message, target_language), 1)
    ELSE TranslateResult(Text("", ""), 1)

\* _translate_text_with_openai: without OPENAI_API_KEY the text is returned
\* before any request; otherwise one post is made, the content of a 200
\* response is returned, and the text for any other status or exception.
TranslateTextWithOpenAI(text, target_language, api_key, response) ==
    IF ~api_key THEN TranslateResult(text, 0)
    ELSE IF response = "ok"
    THEN TranslateResult(Text(text.message, target_language), 1)
    ELSE TranslateResult(text, 1)

\* The condition of _add_campaign_text under which it translates.
NeedsTranslation(language) == language # "" /\ language # "en"

TextInputs ==
    [language : Languages, api_key : BOOLEAN, response : TranslateResponses,
     campaign_message : CampaignMessages, aspect_ratio : AspectRatio]

TextResult(translate_calls, posts, rendered) ==
    [called |-> TRUE, translate_calls |-> translate_calls, posts |-> posts,
     rendered |-> rendered]

\* _add_campaign_text: the message is translated when the language asks
\* for it, and the product name and the message are drawn at the bottom,
\* for every aspect ratio.
AddCampaignText(in) ==
    LET original == Text(in.campaign_message, "")
    IN IF NeedsTranslation(in.language)
       THEN LET r == TranslateTextWithOpenAI(original, in.language, in.api_key,
                                             in.response)
            IN TextResult(1, r.posts, r.text)
       ELSE TextResult(0, 0, original)

\* ------------------------------------------------- VideoGenerator (videos)
\* Fixed parameters of the Veo 3 generator (and of its own mock video).
Veo3Duration == 8
Veo3Width == 1280
Veo3Height == 720
Veo3Fps == 24
\* Defaults of the local fallback generator.
SimpleDuration == 15
SimpleFps == 24
SimpleWidth == 720
SimpleHeight == 1280
\* Values process_campaign writes into every GeneratedVideo.
RecordedWidth == 1080
RecordedHeight == 1920
RecordedFps == 30
DefaultVideoDuration == 15

Veo3Outcomes == {"ok", "fail", "hang"}
Veo3MockOutcomes == {"ok", "fail"}
SimpleVideoOutcomes == {"ok", "nofile", "exception"}

VideoEnv(free) ==
    IF free
    THEN [veo3 : Veo3Outcomes, veo3mock : Veo3MockOutcomes,
          simple : SimpleVideoOutcomes, exists_raises : BOOLEAN]
    ELSE [veo3 : {"ok"}, veo3mock : {"ok"}, simple : {"ok"}, exists_raises : {FALSE}]

VideoPath(name, product, format, ts) ==
    Path("videos", name, product, "", 0, NoId, format, ts)

\* GoogleVeo3Generator._create_mock_video: called without output_filename,
\* so the name is mock_video_<timestamp>; on an error the same path is
\* returned as a placeholder without a file being written.
Veo3CreateMockVideo(e, ts) ==
    LET output_path == VideoPath("mock_video", 0, "", ts)
    IN IF e.veo3mock = "ok"
       THEN StageResult(output_path, <<"veo3_mock">>,
                Put(Empty, output_path, Vid(Veo3Duration, Veo3Width, Veo3Height, Veo3Fps)))
       ELSE StageResult(output_path, <<"veo3_mock">>, Empty)

\* GoogleVeo3Generator._call_veo3_api: output_filename is None here, so the
\* name is veo3_video_<timestamp>.
CallVeo3Api(e, ts) ==
    LET output_path == VideoPath("veo3_video", 0, "", ts)
    IN IF e.veo3 = "ok"
       THEN StageResult(output_path, <<"veo3_api">>,
                Put(Empty, output_path, Vid(Veo3Duration, Veo3Width, Veo3Height, Veo3Fps)))
       ELSE StageResult(None, <<"veo3_api">>, Empty)

\* GoogleVeo3Generator.generate_video_ad(product, campaign_brief)
Veo3GenerateVideoAd(config, e, ts, disk) ==
    IF ~config.veo3_client
    THEN Veo3CreateMockVideo(e, ts)
    ELSE LET api == CallVeo3Api(e, ts)
         IN IF api.ret # None /\ api.ret \in (DOMAIN api.files \cup disk)
            THEN api
            ELSE After(api.trace, Veo3CreateMockVideo(e, ts))

\* VideoGenerator._create_mock_video
CreateMockVideo(e, product, format, ts) ==
    LET video_path == VideoPath("video", product, format, ts)
    IN IF e.simple = "ok"
       THEN StageResult(video_path, <<"simple_mock">>,
                Put(Empty, video_path,
                    Vid(SimpleDuration, SimpleWidth, SimpleHeight, SimpleFps)))
       ELSE IF e.simple = "nofile"
       THEN StageResult(video_path, <<"simple_mock">>, Empty)
       ELSE StageResult(None, <<"simple_mock">>, Empty)

\* VideoGenerator.generate_video_ad; disk is the set of paths that exist.
GenerateVideoAd(config, e, product, format, ts, disk) ==
    LET v == Veo3GenerateVideoAd(config, e, ts, disk)
        m == CreateMockVideo(e, product, format, ts)
    IN IF config.use_veo3
       THEN IF v.ret # None /\ v.ret \in (DOMAIN v.files \cup disk)
            THEN v
            ELSE StageResult(m.ret, v.trace \o m.trace, m.files @@ v.files)
       ELSE m

\* The product_images argument VideoGenerator.generate_video_ad hands to the
\* primary generator: the call names only the product and the brief, so
\* the parameter keeps its default and no image is handed over.
Veo3ProductImages(product_images) == <<>>

\* The starting frame of the primary model call in _call_veo3_api: the
\* first product image, when there is one and its file exists.
StartingFrame(product_images, disk) ==
    IF Len(product_images) > 0 /\ product_images[1] \in disk
    THEN product_images[1]
    ELSE None

\* The primary model is called when it is enabled and its client exists.
PrimaryCalled(config) == config.use_veo3 /\ config.veo3_client

\* The primary model's polling loop (while not operation.done) is entered
\* and the operation never reports completion.
VideoHangs(config, e) ==
    config.use_veo3 /\ config.veo3_client /\ e.veo3 = "hang"

\* ------------------------------------------------------- QualityChecker
\* Sub-scores are in thousandths, the weighted score in ten-thousandths.
Thousand == 1000

Min(a, b) == IF a < b THEN a ELSE b
Max(a, b) == IF a > b THEN a ELSE b

\* A sub-score returned as computed, capped above only.
CapOnly(score) == Min(Thousand, score)

\* max(0.0, min(1.0, score))
Clamp(score) == Max(0, Min(Thousand, score))

\* +points if the test passed, -penalty if it failed.
Step(passed, points, penalty) == IF passed THEN points ELSE 0 - penalty

\* What the technical check finds: raises stands for an exception that
\* reaches the except block of the sub-check (Image.open failing, say);
\* without exists the file is missing and the other tests are not made.
TechFindings ==
    [raises : {FALSE}, exists : {TRUE}, size_ok : BOOLEAN, resolution_ok : BOOLEAN,
     aspect_ok : BOOLEAN, mode_ok : BOOLEAN, verify_ok : BOOLEAN]
    \cup {[raises |-> r, exists |-> r, size_ok |-> TRUE, resolution_ok |-> TRUE,
            aspect_ok |-> TRUE, mode_ok |-> TRUE, verify_ok |-> TRUE] : r \in BOOLEAN}

\* matched is the number of configured brand colors the mean color is
\* close to; colors_raise an exception inside _check_brand_colors.
BrandFindings ==
    [raises : {FALSE}, colors_raise : {FALSE}, matched : 0..3]
    \cup {[raises |-> r, colors_raise |-> ~r, matched |-> 0] : r \in BOOLEAN}

ContentFindings ==
    [raises : {FALSE}, message : BOOLEAN, clean : BOOLEAN, length_ok : BOOLEAN,
     name : BOOLEAN, description : BOOLEAN]
    \cup [raises : {TRUE}, message : {TRUE}, clean : {TRUE}, length_ok : {TRUE},
          name : {TRUE}, description : {TRUE}]

VisualFindings ==
    [raises : {FALSE}, brightness_ok : BOOLEAN]
    \cup [raises : {TRUE}, brightness_ok : {TRUE}]

QualInputs ==
    [technical : TechFindings, brand : BrandFindings, content : ContentFindings,
     visual : VisualFindings]

\* The all-pass case: a readable image that passes every technical test,
\* whose mean color is close to one brand color and whose brightness is in
\* range, a clean message of suitable length, product name and description.
AllPass ==
    [technical |-> [raises |-> FALSE, exists |-> TRUE, size_ok |-> TRUE,
                    resolution_ok |-> TRUE, aspect_ok |-> TRUE, mode_ok |-> TRUE,
                    verify_ok |-> TRUE],
     brand |-> [raises |-> FALSE, colors_raise |-> FALSE, matched |-> 1],
     content |-> [raises |-> FALSE, message |-> TRUE, clean |-> TRUE,
                  length_ok |-> TRUE, name |-> TRUE, description |-> TRUE],
     visual |-> [raises |-> FALSE, brightness_ok |-> TRUE]]

\* _check_technical_quality
CheckTechnicalQuality(t) ==
    IF ~t.exists \/ t.raises
    THEN 0
    ELSE Clamp(Step(t.size_ok, 200, 200) + Step(t.resolution_ok, 300, 300)
               + Step(t.aspect_ok, 200, 200) + Step(t.mode_ok, 100, 100)
               + Step(t.verify_ok, 200, 200))

\* A color check that adds 0.1 for every brand color that is matched.
CheckBrandColorsTenth(b) ==
    IF b.colors_raise THEN 0 ELSE Min(Thousand, 100 * b.matched)

\* _check_brand_colors: 0.33 for every brand color that is matched
CheckBrandColors(b) ==
    IF b.colors_raise THEN 0 ELSE Min(Thousand, 330 * b.matched)

\* _check_required_elements: 0.5 + 0.3 + 0.2, whatever the image
CheckRequiredElements == Min(Thousand, 500 + 300 + 200)

\* _check_brand_compliance: 0.4 * colors + 0.6 * required elements
CheckBrandCompliance(b) ==
    IF b.raises
    THEN 0
    ELSE Clamp((4 * CheckBrandColors(b) + 6 * CheckRequiredElements) \div 10)

\* _check_content_quality
CheckContentQuality(c) ==
    IF c.raises
    THEN 0
    ELSE Clamp((IF c.message
                THEN 300 + Step(c.clean, 200, 200) + Step(c.length_ok, 200, 100)
                ELSE 0 - 300)
               + Step(c.name, 200, 200) + Step(c.description, 100, 100))

\* _check_visual_quality
CheckVisualQuality(v) ==
    IF v.raises
    THEN 0
    ELSE Clamp(Step(v.brightness_ok, 300, 200) + 300 + 200 + 200)

\* A scorer whose sub-checks have no handler of their own: any exception
\* reaches the handler of check_creative_quality, which returns 0.0.
CheckCreativeQualityOuterHandler(q) ==
    IF q.technical.raises \/ q.brand.raises \/ q.content.raises \/ q.visual.raises
    THEN 0
    ELSE 3 * CheckTechnicalQuality(q.technical) + 3 * CheckBrandCompliance(q.brand)
         + 2 * CheckContentQuality(q.content) + 2 * CheckVisualQuality(q.visual)

\* check_creative_quality: the weighted sum with weights 0.3, 0.3, 0.2, 0.2
CheckCreativeQuality(q) ==
    3 * CheckTechnicalQuality(q.technical) + 3 * CheckBrandCompliance(q.brand)
    + 2 * CheckContentQuality(q.content) + 2 * CheckVisualQuality(q.visual)

\* ------------------------------------------------------ CreativePipeline
DefaultAspectRatios == <<SQUARE, VERTICAL, HORIZONTAL>>
DefaultVideoFormats == <<YOUTUBE_SHORTS, INSTAGRAM_REELS>>

\* The outcomes a call to the environment can have: any of them, or only
\* the nominal one when the collaborators are stubbed.
Outcomes(all, nominal, free) == IF free THEN all ELSE {nominal}

\* Outcomes of a directory creation or file write on the local disk.
DiskOutcomes == {"ok", "exception"}
\* Outcomes of TemplateEngine.apply_template: the creative was saved and
\* True returned, or an internal error was caught and False returned.
ApplyOutcomes == {"saved", "false"}
\* Scores check_creative_quality can return, in hundredths.
QualityScores == {0, 100}
\* Outcomes of an artifact-store operation.
StoreOutcomes == {"url", "none", "exception"}

\* Aspect-ratio lists of length at most n: the runs of consecutive ratios
\* of the default list.
RatioLists(n) ==
    {SubSeq(DefaultAspectRatios, i, j) :
        i \in 1..Len(DefaultAspectRatios), j \in 0..Len(DefaultAspectRatios)}
    \cap UNION {[1..k -> AspectRatio] : k \in 0..n}

\* Video formats process_campaign iterates over.
VideoFormats(campaign_brief) ==
    IF campaign_brief.video_format # "unset"
    THEN <<campaign_brief.video_format>>
    ELSE DefaultVideoFormats

WantsImages(campaign_brief) == campaign_brief.content_type \in {IMAGE, BOTH}
\* A video phase that runs for every content type.
WantsVideosAlways(campaign_brief) == campaign_brief.content_type \in {IMAGE, VIDEO, BOTH}
WantsVideos(campaign_brief) == campaign_brief.content_type \in {VIDEO, BOTH}

\* Number of image slots, and of image and video slots, of a brief.
ImageSlots(b) == IF WantsImages(b) THEN b.np * Len(b.aspect_ratios) ELSE 0

SlotCount(b) ==
    ImageSlots(b) + (IF WantsVideos(b) THEN b.np * Len(VideoFormats(b)) ELSE 0)

\* The data a brief is constructed from: np is the number of products,
\* complete says that every required field is present.
Briefs ==
    [np : 0..MaxProducts, complete : BOOLEAN,
     aspect_ratios : RatioLists(MaxRatios),
     content_type : ContentType, video_format : {"unset", TIKTOK},
     avatar : BOOLEAN, video_duration : {DefaultVideoDuration}]

\* A validation without the min_items constraint on products.
CampaignBriefAcceptsNoProducts(data) == data.complete

\* Validation of CampaignBrief(**data): the fields declared with Field(...)
\* are required and products has min_items=1.
CampaignBriefValid(data) == data.complete /\ data.np >= 1

Configs ==
    [api_key : BOOLEAN, fallback_mode : BOOLEAN, use_veo3 : BOOLEAN,
     veo3_client : BOOLEAN, s3_available : BOOLEAN]

\* A creative file name without the id: <product>_<ratio>_v<N>.jpg
CreativePathWithoutId(product, aspect_ratio, variation_num, creative_id) ==
    Path("campaign", "creative", product, aspect_ratio, variation_num, NoId, "", 0)

\* final_path in _apply_template_and_text: variation, product slug, ratio
\* slug and the first characters of the creative's uuid, in the product's
\* per-ratio folder.
CreativePath(product, aspect_ratio, variation_num, creative_id) ==
    Path("campaign", "creative", product, aspect_ratio, variation_num, creative_id, "", 0)

\* summary_file in process_campaign
SummaryPath == Path("campaign", "generation_summary", 0, "", 0, NoId, "", 0)

\* GeneratedCreative(...)
GeneratedCreative(creative_id, product, aspect_ratio, file_path, score, variation_num) ==
    [creative_id |-> creative_id, product_name |-> product,
     aspect_ratio |-> aspect_ratio, file_path |-> file_path,
     quality_score |-> score, s3_url |-> None, variation_num |-> variation_num]

\* GeneratedVideo(...) as built in process_campaign
GeneratedVideo(video_id, product, video_format, video_path, campaign_brief) ==
    [video_id |-> video_id, product_name |-> product,
     video_format |-> video_format, file_path |-> video_path,
     duration |-> campaign_brief.video_duration,
     width |-> RecordedWidth, height |-> RecordedHeight, fps |-> RecordedFps,
     s3_url |-> None]

\* An entry of generation_errors: the slot the message names.
SlotError(phase, product, index) ==
    [phase |-> phase, product |-> product, index |-> index]

Gcd(a, b) ==
    CHOOSE d \in 1..(IF a > b THEN a ELSE b) :
        /\ a % d = 0 /\ b % d = 0
        /\ \A c \in 1..(IF a > b THEN a ELSE b) : (a % c = 0 /\ b % c = 0) => c <= d

\* The value of a / b as a fraction in lowest terms.
Ratio(a, b) == <<a \div Gcd(a, b), b \div Gcd(a, b)>>

\* A pipeline that expects three variations of every product, whatever
\* ratios the brief lists.
TotalExpectedThreeVariations(campaign_brief) ==
    campaign_brief.np * Len(DefaultAspectRatios)

\* total_expected in process_campaign
TotalExpected(campaign_brief) == campaign_brief.np * Len(campaign_brief.aspect_ratios)

\* success_rate in process_campaign
SuccessRate(generated, total_expected) ==
    IF total_expected > 0 THEN Ratio(generated, total_expected) ELSE <<0, 1>>

VARIABLES
    env_free,             \* FALSE: collaborators stubbed to their nominal outcome
    config,               \* settings the collaborators were constructed with
    brief,                \* request.campaign_brief
    pc,                   \* position in process_campaign
    run,                  \* number of the current process_campaign call
    now,                  \* int(time.time())
    product_i,            \* index of the product of the current loop
    ratio_i,              \* index into aspect_ratios of the next image slot
    variation_num,        \* variation_num of the image loop
    format_i,             \* index into video_formats of the next video slot
    store_i,              \* index of the next creative / video to upload
    generated_creatives,
    generated_videos,
    generation_errors,
    campaign_output,      \* CampaignOutput (None until it is built)
    fs,                   \* files on disk: path -> content
    clobbered,            \* paths written while a file already existed there
    image_calls,          \* generate_product_image calls: <<product, index, result>>
    video_calls,          \* generate_video_ad calls: <<product, format, product
                          \* images, primary model called, its starting frame>>
    store_calls           \* artifact-store operations, in order

VARIABLES gen_in, gen_env, gen_out

VARIABLES vid_in, vid_env, vid_out

VARIABLES qual_in, qual_out

VARIABLES prompt_self, prompt_log

VARIABLES tmpl_in, tmpl_out

VARIABLES text_in, text_out

pipeline_vars ==
    <<env_free, config, brief, pc, run, now, product_i, ratio_i, variation_num, format_i,
      store_i, generated_creatives, generated_videos, generation_errors,
      campaign_output, fs, clobbered, image_calls, video_calls, store_calls>>

gen_vars == <<gen_in, gen_env, gen_out>>

vid_vars == <<vid_in, vid_env, vid_out>>

qual_vars == <<qual_in, qual_out>>

prompt_vars == <<prompt_self, prompt_log>>

tmpl_vars == <<tmpl_in, tmpl_out>>

text_vars == <<text_in, text_out>>

\* The variables of the components that are also run on their own.
unit_vars == <<gen_vars, vid_vars, qual_vars, prompt_vars, tmpl_vars, text_vars>>

vars == <<pipeline_vars, unit_vars>>

NotCalled == [ret |-> None, trace |-> <<"not_called">>, files |-> Empty]

\* State before the brief is constructed, the disk and the clock given.
Entry(r, t, disk) ==
    /\ pc = "load"
    /\ run = r
    /\ now = t
    /\ product_i = 1
    /\ ratio_i = 1
    /\ variation_num = 1
    /\ format_i = 1
    /\ store_i = 1
    /\ generated_creatives = <<>>
    /\ generated_videos = <<>>
    /\ generation_errors = <<>>
    /\ campaign_output = None
    /\ fs = disk
    /\ clobbered = {}
    /\ image_calls = <<>>
    /\ video_calls = <<>>
    /\ store_calls = <<>>

\* The pipeline is not run: a default configuration and brief.
PipelineIdle ==
    /\ config = [api_key |-> FALSE, fallback_mode |-> FALSE, use_veo3 |-> FALSE,
                 veo3_client |-> FALSE, s3_available |-> FALSE]
    /\ brief = [np |-> 1, complete |-> TRUE, aspect_ratios |-> DefaultAspectRatios,
                content_type |-> IMAGE, video_format |-> "unset", avatar |-> FALSE,
                video_duration |-> DefaultVideoDuration]

GenIdle ==
    /\ gen_in = [api_key |-> FALSE, fallback_mode |-> FALSE,
                 aspect_ratio |-> SQUARE, avatar |-> FALSE]
    /\ gen_env = [ai |-> "url", avatar_file |-> TRUE, dl |-> "resized",
                  save |-> "resized", mock |-> "resized", simple |-> "ok",
                  retry |-> "ok", mock2 |-> "resized", simple2 |-> "ok",
                  retry2 |-> "ok"]
    /\ gen_out = NotCalled

\* The inputs of one generate_video_ad call: the generator's settings, the
\* product and the format of the file name the orchestrator passes.
VidInputs ==
    [use_veo3 : BOOLEAN, veo3_client : BOOLEAN, product : 1..MaxProducts,
     format : VideoFormat]

VidIdle ==
    /\ vid_in = [use_veo3 |-> FALSE, veo3_client |-> FALSE, product |-> 1,
                 format |-> TIKTOK]
    /\ vid_env = [veo3 |-> "ok", veo3mock |-> "ok", simple |-> "ok",
                  exists_raises |-> FALSE]
    /\ vid_out = NotCalled

\* The scorer has not been called: qual_out is -1.
QualIdle ==
    /\ qual_in = AllPass
    /\ qual_out = 0 - 1

\* A generator that has built no prompt.
PromptIdle ==
    /\ prompt_self = [calls |-> 0, fallback_mode |-> FALSE]
    /\ prompt_log = <<>>

TmplNotCalled == [ret |-> FALSE, image |-> <<>>, written |-> FALSE, called |-> FALSE]

\* The compositor has not been called.
TmplIdle ==
    /\ tmpl_in = [open |-> "ok", stages |-> [i \in 1..Len(StageNames) |-> "ok"],
                  save |-> "ok"]
    /\ tmpl_out = TmplNotCalled

TextNotCalled ==
    [called |-> FALSE, translate_calls |-> 0, posts |-> 0, rendered |-> Text("", "")]

\* The text stage has not been called.
TextIdle ==
    /\ text_in = [language |-> "en", api_key |-> FALSE, response |-> "ok",
                  campaign_message |-> "Run", aspect_ratio |-> SQUARE]
    /\ text_out = TextNotCalled

\* Configurations and briefs that differ only in a setting the run never
\* reads are drawn once: video settings without video content, image
\* settings without image content, the avatar without an API key.
Relevant(c, b) ==
    /\ (~c.use_veo3 => ~c.veo3_client)
    /\ (~WantsVideos(b) => ~c.use_veo3 /\ b.video_format = "unset")
    /\ (~WantsImages(b) => ~c.api_key /\ ~c.fallback_mode)
    /\ (b.avatar => c.api_key /\ WantsImages(b)
                     /\ \E i \in DOMAIN b.aspect_ratios : b.aspect_ratios[i] = VERTICAL)
    /\ (~CampaignBriefValid(b) =>
            /\ ~c.api_key /\ ~c.fallback_mode /\ ~c.use_veo3 /\ ~c.s3_available
            /\ b.video_format = "unset")

\* Runs start with an empty output tree.  With an unconstrained environment
\* the brief has at most MaxSlots slots, and at most MaxFallbackSlots image
\* slots when the generator's fallback chain is enabled; with stubbed
\* collaborators it has up to MaxProducts x MaxRatios image slots.
InitWith(free, slots, fallback_slots) ==
    /\ env_free = free
    /\ config \in Configs
    /\ brief \in {b \in Briefs : SlotCount(b) <= slots}
    /\ config.fallback_mode => ImageSlots(brief) <= fallback_slots
    /\ Relevant(config, brief)
    /\ CampaignBriefValid(brief) \/ free
    /\ Entry(1, 0, Empty)
    /\ GenIdle
    /\ VidIdle
    /\ QualIdle
    /\ PromptIdle
    /\ TmplIdle
    /\ TextIdle

AnySlots == MaxProducts * MaxRatios

Init ==
    \/ InitWith(TRUE, MaxSlots, MaxFallbackSlots)
    \/ InitWith(FALSE, AnySlots, AnySlots)

\* Files written to disk; a write to an existing path replaces the file.
WriteFiles(files) ==
    /\ fs' = files @@ fs
    /\ clobbered' = clobbered \cup (DOMAIN files \cap DOMAIN fs)

\* Position after the image loop of the last product.
AfterImages ==
    IF WantsVideos(brief) THEN "video" ELSE "summary"

\* An image loop that a failed slot ends: the remaining ratios of the
\* product are skipped.
ImageLoopBreaks(campaign_brief, product, index, slot_failed) ==
    IF index < Len(campaign_brief.aspect_ratios) /\ ~slot_failed
    THEN <<"slot", product, index + 1>>
    ELSE IF product < campaign_brief.np
    THEN <<"product", product + 1, index>>
    ELSE <<IF campaign_brief.content_type \in {VIDEO, BOTH} THEN "video" ELSE "summary",
           1, index>>

\* Where the loops of process_campaign continue after the image slot
\* (product, index): the next ratio, the next product, or the code after
\* the product loop.  The slot's failure is caught inside the iteration, so
\* the position does not depend on it.
ImageLoopNext(campaign_brief, product, index, slot_failed) ==
    IF index < Len(campaign_brief.aspect_ratios)
    THEN <<"slot", product, index + 1>>
    ELSE IF product < campaign_brief.np
    THEN <<"product", product + 1, index>>
    ELSE <<IF WantsVideos(campaign_brief) THEN "video" ELSE "summary", 1, index>>

\* A counter that advances only when the slot produced a creative.
NextVariationOnSuccess(n, slot_failed) == IF slot_failed THEN n ELSE n + 1

\* variation_num += 1 at the end of every iteration of the ratio loop,
\* after the try block: the slot's outcome does not matter.
NextVariationNum(n, slot_failed) == n + 1

\* load_campaign_brief: CampaignBrief(**data) raises a validation error for
\* invalid data, before the request and the pipeline are created; with a
\* valid brief process_campaign is entered.
LoadCampaignBrief ==
    /\ pc = "load"
    /\ pc' = IF CampaignBriefValid(brief) THEN "start" ELSE "rejected"
    /\ UNCHANGED <<env_free, config, brief, run, now, product_i, ratio_i, variation_num,
                   format_i, store_i, generated_creatives, generated_videos,
                   generation_errors, campaign_output, fs, clobbered,
                   image_calls, video_calls, store_calls, unit_vars>>

\* campaign_dir.mkdir(exist_ok=True)
Start ==
    /\ pc = "start"
    /\ \E mk \in Outcomes(DiskOutcomes, "ok", env_free) :
          pc' = IF mk = "ok" THEN "product" ELSE "raised"
    /\ UNCHANGED <<env_free, config, brief, run, now, product_i, ratio_i, variation_num,
                   format_i, store_i, generated_creatives, generated_videos,
                   generation_errors, campaign_output, fs, clobbered,
                   image_calls, video_calls, store_calls, unit_vars>>

\* Head of the product loop: product_dir.mkdir(exist_ok=True), then the
\* image loop is entered or skipped.
BeginProduct ==
    /\ pc = "product"
    /\ \E mk \in Outcomes(DiskOutcomes, "ok", env_free) :
          IF mk = "exception"
          THEN /\ pc' = "raised"
               /\ UNCHANGED <<product_i, ratio_i, variation_num>>
          ELSE IF WantsImages(brief) /\ Len(brief.aspect_ratios) > 0
          THEN /\ pc' = "slot"
               /\ ratio_i' = 1
               /\ variation_num' = 1
               /\ UNCHANGED product_i
          ELSE IF product_i < brief.np
          THEN /\ pc' = "product"
               /\ product_i' = product_i + 1
               /\ UNCHANGED <<ratio_i, variation_num>>
          ELSE /\ pc' = AfterImages
               /\ product_i' = 1
               /\ UNCHANGED <<ratio_i, variation_num>>
    /\ UNCHANGED <<env_free, config, brief, run, now, format_i, store_i,
                   generated_creatives, generated_videos, generation_errors,
                   campaign_output, fs, clobbered, image_calls, video_calls,
                   store_calls, unit_vars>>

\* quality_threshold of GenerationRequest, in hundredths: both callers
\* build the request without it, so it has its default 0.7.
QualityThreshold == 70

\* A slot that keeps its creative only when the score reaches the
\* threshold of the request.
KeepsCreativeAboveThreshold(quality_score, quality_threshold) ==
    quality_score >= quality_threshold

\* Whether _generate_single_creative returns the composed creative: the
\* score is stored in it and compared with nothing, and the threshold of
\* the request is never read.
KeepsCreative(quality_score, quality_threshold) == TRUE

\* A list that takes a new creative at its head.
PrependCreative(creatives, creative) == <<creative>> \o creatives

\* generated_creatives.append(creative)
AppendCreative(creatives, creative) == Append(creatives, creative)

\* One iteration of the aspect-ratio loop: _get_or_generate_base_image,
\* _generate_single_creative, the append to generated_creatives or to
\* generation_errors, and variation_num += 1.
ImageSlot ==
    /\ pc = "slot"
    /\ LET aspect_ratio == brief.aspect_ratios[ratio_i]
           u == <<run, product_i, ratio_i>>
           in == [api_key |-> config.api_key, fallback_mode |-> config.fallback_mode,
                  aspect_ratio |-> aspect_ratio, avatar |-> brief.avatar]
           final_path == CreativePath(product_i, aspect_ratio, variation_num, Uuid(u, "creative", 1))
           error == SlotError("image", product_i, variation_num)
       IN \E mk_base \in Outcomes(DiskOutcomes, "ok", env_free) :
             IF mk_base = "exception"
             THEN /\ generation_errors' = Append(generation_errors, error)
                  /\ UNCHANGED <<generated_creatives, fs, clobbered, image_calls>>
             ELSE \E base \in GenResults(in, variation_num, u, env_free) :
                  /\ image_calls' = Append(image_calls, <<product_i, ratio_i, base.ret.kind>>)
                  /\ IF base.ret.kind # "path"
                     THEN /\ generation_errors' = Append(generation_errors, error)
                          /\ WriteFiles(base.files)
                          /\ UNCHANGED generated_creatives
                     ELSE \E mk_ratio \in Outcomes(DiskOutcomes, "ok", env_free),
                             applied \in Outcomes(ApplyOutcomes, "saved", env_free),
                             quality_score \in Outcomes(QualityScores, 100, env_free) :
                          IF mk_ratio = "exception"
                          THEN /\ generation_errors' = Append(generation_errors, error)
                               /\ WriteFiles(base.files)
                               /\ UNCHANGED generated_creatives
                          ELSE IF ~KeepsCreative(quality_score, QualityThreshold)
                          THEN /\ generation_errors' = Append(generation_errors, error)
                               /\ WriteFiles(IF applied = "saved"
                                             THEN Put(base.files, final_path,
                                                      TargetSize(aspect_ratio))
                                             ELSE base.files)
                               /\ UNCHANGED generated_creatives
                          ELSE /\ generated_creatives' =
                                     AppendCreative(generated_creatives,
                                            GeneratedCreative(Uuid(u, "creative", 1), product_i,
                                                aspect_ratio, final_path, quality_score,
                                                variation_num))
                               /\ WriteFiles(IF applied = "saved"
                                             THEN Put(base.files, final_path,
                                                      TargetSize(aspect_ratio))
                                             ELSE base.files)
                               /\ UNCHANGED generation_errors
    /\ variation_num' = NextVariationNum(variation_num,
                            Len(generation_errors') > Len(generation_errors))
    /\ LET next == ImageLoopNext(brief, product_i, ratio_i,
                                 Len(generation_errors') > Len(generation_errors))
       IN /\ pc' = next[1]
          /\ product_i' = next[2]
          /\ ratio_i' = next[3]
    /\ UNCHANGED <<env_free, config, brief, run, now, format_i, store_i, generated_videos,
                   campaign_output, video_calls, store_calls, unit_vars>>

\* product_images in the video phase: the file paths of the creatives of
\* the product, in the order they were generated.
ProductImages(creatives, product) ==
    LET OfProduct(creative) == creative.product_name = product
        own == SelectSeq(creatives, OfProduct)
    IN [i \in 1..Len(own) |-> own[i].file_path]

\* One iteration of the video-format loop of one product: the file name,
\* generate_video_ad, the existence test and the append to generated_videos
\* or generation_errors.  The try block encloses the whole loop of the
\* product, so an exception ends that product's loop.
VideoSlot ==
    /\ pc = "video"
    /\ LET video_formats == VideoFormats(brief)
           video_format == video_formats[format_i]
           u == <<run, product_i, format_i>>
           next_format ==
               IF format_i < Len(video_formats)
               THEN /\ format_i' = format_i + 1
                    /\ UNCHANGED <<pc, product_i>>
               ELSE IF product_i < brief.np
               THEN /\ format_i' = 1
                    /\ product_i' = product_i + 1
                    /\ UNCHANGED pc
               ELSE /\ format_i' = 1
                    /\ product_i' = 1
                    /\ pc' = "summary"
           next_product ==
               IF product_i < brief.np
               THEN /\ format_i' = 1
                    /\ product_i' = product_i + 1
                    /\ UNCHANGED pc
               ELSE /\ format_i' = 1
                    /\ product_i' = 1
                    /\ pc' = "summary"
       IN \E e \in VideoEnv(env_free), dt \in 0..1 :
          /\ now + dt <= MaxTime
          /\ now' = now + dt
          /\ video_calls' =
                Append(video_calls,
                       <<product_i, video_format,
                         ProductImages(generated_creatives, product_i),
                         PrimaryCalled(config),
                         StartingFrame(
                             Veo3ProductImages(ProductImages(generated_creatives, product_i)),
                             DOMAIN fs)>>)
          /\ IF VideoHangs(config, e)
             THEN /\ pc' = "hung"
                  /\ UNCHANGED <<product_i, format_i, generated_videos,
                                 generation_errors, fs, clobbered>>
             ELSE LET r == GenerateVideoAd(config, e, product_i, video_format,
                                           now + dt, DOMAIN fs)
                  IN /\ WriteFiles(r.files)
                     /\ IF r.ret # None /\ e.exists_raises
                        THEN /\ generation_errors' =
                                   Append(generation_errors, SlotError("video", product_i, 0))
                             /\ UNCHANGED generated_videos
                             /\ next_product
                        ELSE IF r.ret # None /\ r.ret \in (DOMAIN r.files \cup DOMAIN fs)
                        THEN /\ generated_videos' =
                                   Append(generated_videos,
                                          GeneratedVideo(Uuid(u, "video", 1), product_i,
                                                         video_format, r.ret, brief))
                             /\ UNCHANGED generation_errors
                             /\ next_format
                        ELSE /\ generation_errors' =
                                   Append(generation_errors,
                                          SlotError("video", product_i, format_i))
                             /\ UNCHANGED generated_videos
                             /\ next_format
    /\ UNCHANGED <<env_free, config, brief, run, ratio_i, variation_num, store_i,
                   generated_creatives, campaign_output, image_calls,
                   store_calls, unit_vars>>

\* A summary that expects image slots only when images are requested.
GenerationSummaryOfImageSlots(campaign_brief, creatives, errors) ==
    [total_expected |-> ImageSlots(campaign_brief),
     total_generated |-> Len(creatives),
     success_rate |-> SuccessRate(Len(creatives), ImageSlots(campaign_brief)),
     errors |-> errors]

\* generation_summary in process_campaign
GenerationSummary(campaign_brief, creatives, errors) ==
    [total_expected |-> TotalExpected(campaign_brief),
     total_generated |-> Len(creatives),
     success_rate |-> SuccessRate(Len(creatives), TotalExpected(campaign_brief)),
     errors |-> errors]

\* An output whose totals are the numbers of slots of the brief.
CampaignOutputOfSlots(campaign_brief, creatives, videos, errors) ==
    [kind |-> "output",
     generation_summary |-> GenerationSummary(campaign_brief, creatives, errors),
     total_creatives |-> TotalExpected(campaign_brief),
     total_videos |-> campaign_brief.np * Len(VideoFormats(campaign_brief)),
     success_rate |-> SuccessRate(Len(creatives), TotalExpected(campaign_brief))]

\* CampaignOutput(...) in process_campaign; generated_creatives and
\* generated_videos are the lists of the run themselves.
CampaignOutput(campaign_brief, creatives, videos, errors) ==
    [kind |-> "output",
     generation_summary |-> GenerationSummary(campaign_brief, creatives, errors),
     total_creatives |-> Len(creatives),
     total_videos |-> Len(videos),
     success_rate |-> SuccessRate(Len(creatives), TotalExpected(campaign_brief))]

\* Success metrics, the summary file, the CampaignOutput and the test
\* s3_storage.is_available().
\* A store phase that begins with the output record.
AfterSummarySkipsBrief(s3_available) ==
    IF s3_available THEN "store_output" ELSE "returned"

\* Where process_campaign continues once the output is built: the store
\* phase, which begins with the brief, when the store is available, and
\* the return otherwise.
AfterSummary(s3_available) ==
    IF s3_available THEN "store_brief" ELSE "returned"

Summarize ==
    /\ pc = "summary"
    /\ \E wr \in Outcomes(DiskOutcomes, "ok", env_free) :
          IF wr = "exception"
          THEN /\ pc' = "raised"
               /\ UNCHANGED <<campaign_output, fs, clobbered>>
          ELSE /\ WriteFiles(Put(Empty, SummaryPath, RawBytes))
               /\ campaign_output' = CampaignOutput(brief, generated_creatives,
                                                    generated_videos, generation_errors)
               /\ pc' = AfterSummary(config.s3_available)
    /\ UNCHANGED <<env_free, config, brief, run, now, product_i, ratio_i, variation_num,
                   format_i, store_i, generated_creatives, generated_videos,
                   generation_errors, image_calls, video_calls, store_calls,
                   unit_vars>>

\* Position at which the upload loops continue from index i of the
\* creatives (phase "upload_creative") or of the videos.
UploadPosition(phase, i) ==
    IF phase = "upload_creative" /\ i <= Len(generated_creatives)
    THEN <<"upload_creative", i>>
    ELSE IF phase = "upload_creative"
    THEN IF Len(generated_videos) > 0 THEN <<"upload_video", 1>> ELSE <<"returned", 1>>
    ELSE IF i <= Len(generated_videos)
    THEN <<"upload_video", i>>
    ELSE <<"returned", 1>>

\* A store phase without its except block: the exception leaves
\* process_campaign.
AfterStoreErrorRaises == "raised"

\* The except block of the store phase: the error is logged and
\* process_campaign goes on to return campaign_output.
AfterStoreError == "returned"

\* s3_storage.store_campaign_brief
StoreBrief ==
    /\ pc = "store_brief"
    /\ store_calls' = Append(store_calls, "store_campaign_brief")
    /\ \E o \in Outcomes(StoreOutcomes, "url", env_free) :
          pc' = IF o = "exception" THEN AfterStoreError ELSE "store_output"
    /\ UNCHANGED <<env_free, config, brief, run, now, product_i, ratio_i, variation_num,
                   format_i, store_i, generated_creatives, generated_videos,
                   generation_errors, campaign_output, fs, clobbered,
                   image_calls, video_calls, unit_vars>>

\* s3_storage.store_campaign_output
StoreOutput ==
    /\ pc = "store_output"
    /\ store_calls' = Append(store_calls, "store_campaign_output")
    /\ \E o \in Outcomes(StoreOutcomes, "url", env_free) :
          IF o = "exception"
          THEN pc' = AfterStoreError /\ store_i' = 1
          ELSE /\ pc' = UploadPosition("upload_creative", 1)[1]
               /\ store_i' = UploadPosition("upload_creative", 1)[2]
    /\ UNCHANGED <<env_free, config, brief, run, now, product_i, ratio_i, variation_num,
                   format_i, generated_creatives, generated_videos,
                   generation_errors, campaign_output, fs, clobbered,
                   image_calls, video_calls, unit_vars>>

\* One iteration of the creative upload loop.
UploadCreative ==
    /\ pc = "upload_creative"
    /\ LET creative == generated_creatives[store_i]
           next == UploadPosition("upload_creative", store_i + 1)
       IN IF creative.file_path \notin DOMAIN fs
          THEN /\ pc' = next[1]
               /\ store_i' = next[2]
               /\ UNCHANGED <<generated_creatives, store_calls>>
          ELSE /\ store_calls' = Append(store_calls, "upload_creative")
               /\ \E o \in Outcomes(StoreOutcomes, "url", env_free) :
                     /\ generated_creatives' =
                           IF o = "url"
                           THEN [generated_creatives EXCEPT
                                    ![store_i].s3_url = [kind |-> "url", of |-> creative.file_path]]
                           ELSE generated_creatives
                     /\ pc' = IF o = "exception" THEN AfterStoreError ELSE next[1]
                     /\ store_i' = IF o = "exception" THEN 1 ELSE next[2]
    /\ UNCHANGED <<env_free, config, brief, run, now, product_i, ratio_i, variation_num,
                   format_i, generated_videos, generation_errors,
                   campaign_output, fs, clobbered, image_calls, video_calls,
                   unit_vars>>

\* One iteration of the video upload loop.
UploadVideo ==
    /\ pc = "upload_video"
    /\ LET video == generated_videos[store_i]
           next == UploadPosition("upload_video", store_i + 1)
       IN IF video.file_path \notin DOMAIN fs
          THEN /\ pc' = next[1]
               /\ store_i' = next[2]
               /\ UNCHANGED <<generated_videos, store_calls>>
          ELSE /\ store_calls' = Append(store_calls, "upload_video")
               /\ \E o \in Outcomes(StoreOutcomes, "url", env_free) :
                     /\ generated_videos' =
                           IF o = "url"
                           THEN [generated_videos EXCEPT
                                    ![store_i].s3_url = [kind |-> "url", of |-> video.file_path]]
                           ELSE generated_videos
                     /\ pc' = IF o = "exception" THEN AfterStoreError ELSE next[1]
                     /\ store_i' = IF o = "exception" THEN 1 ELSE next[2]
    /\ UNCHANGED <<env_free, config, brief, run, now, product_i, ratio_i, variation_num,
                   format_i, generated_creatives, generation_errors,
                   campaign_output, fs, clobbered, image_calls, video_calls,
                   unit_vars>>

\* The caller invokes process_campaign again with the same request; the
\* output tree of the earlier runs is still on disk.
Rerun ==
    /\ pc \in {"returned", "raised"}
    /\ run < MaxRuns
    /\ \E dt \in 0..1 :
          /\ now + dt <= MaxTime
          /\ now' = now + dt
    /\ pc' = "start"
    /\ run' = run + 1
    /\ product_i' = 1
    /\ ratio_i' = 1
    /\ variation_num' = 1
    /\ format_i' = 1
    /\ store_i' = 1
    /\ generated_creatives' = <<>>
    /\ generated_videos' = <<>>
    /\ generation_errors' = <<>>
    /\ campaign_output' = None
    /\ image_calls' = <<>>
    /\ video_calls' = <<>>
    /\ store_calls' = <<>>
    /\ UNCHANGED <<env_free, config, brief, fs, clobbered, unit_vars>>

Next ==
    \/ LoadCampaignBrief
    \/ Start
    \/ BeginProduct
    \/ ImageSlot
    \/ VideoSlot
    \/ Summarize
    \/ StoreBrief
    \/ StoreOutput
    \/ UploadCreative
    \/ UploadVideo

Spec == Init /\ [][Next]_vars

\* A run with unconstrained collaborators that is scheduled until it ends:
\* the event loop keeps executing process_campaign as long as it has a step
\* to take.
LiveInit == InitWith(TRUE, MaxSlots, MaxFallbackSlots)

LiveSpec == LiveInit /\ [][Next]_vars /\ WF_vars(Next)

\* Repeated runs of one request, collaborators stubbed, the clock free.
RerunInit == InitWith(FALSE, MaxRerunSlots, MaxRerunSlots)

RerunNext ==
    \/ Next
    \/ Rerun

RerunSpec == RerunInit /\ [][RerunNext]_vars

\* ------------------------------------------- generate_product_image alone
GenInit ==
    /\ gen_in \in GenInputs
    /\ gen_env \in GenEnv
    /\ gen_out = NotCalled
    /\ env_free = TRUE
    /\ PipelineIdle
    /\ Entry(1, 0, Empty)
    /\ VidIdle
    /\ QualIdle
    /\ PromptIdle
    /\ TmplIdle
    /\ TextIdle

\* One call of generate_product_image on the chosen inputs.
GenCall ==
    /\ gen_out = NotCalled
    /\ gen_out' = GenerateProductImage(gen_in, gen_env, 1, <<0, 0, 0>>)
    /\ UNCHANGED <<gen_in, gen_env, pipeline_vars, vid_vars, qual_vars, prompt_vars, tmpl_vars, text_vars>>

GenNext == GenCall

GenSpec == GenInit /\ [][GenNext]_vars

\* ------------------------------------------------ generate_video_ad alone
\* The call that never returns: the polling loop of the primary model.
Hung == [kind |-> "hung"]

VidInit ==
    /\ vid_in \in VidInputs
    /\ vid_env \in VideoEnv(TRUE)
    /\ vid_out = NotCalled
    /\ env_free = TRUE
    /\ PipelineIdle
    /\ Entry(1, 0, Empty)
    /\ GenIdle
    /\ QualIdle
    /\ PromptIdle
    /\ TmplIdle
    /\ TextIdle

\* One call of VideoGenerator.generate_video_ad on the chosen inputs, with
\* an empty videos directory.
VidCall ==
    /\ vid_out = NotCalled
    /\ vid_out' = IF VideoHangs(vid_in, vid_env)
                  THEN StageResult(Hung, <<"veo3_api">>, Empty)
                  ELSE GenerateVideoAd(vid_in, vid_env, vid_in.product, vid_in.format, 0, {})
    /\ UNCHANGED <<vid_in, vid_env, pipeline_vars, gen_vars, qual_vars, prompt_vars, tmpl_vars, text_vars>>

VidNext == VidCall

VidSpec == VidInit /\ [][VidNext]_vars

\* ------------------------------------------- check_creative_quality alone
QualInit ==
    /\ qual_in \in QualInputs
    /\ qual_out = 0 - 1
    /\ env_free = TRUE
    /\ PipelineIdle
    /\ Entry(1, 0, Empty)
    /\ GenIdle
    /\ VidIdle
    /\ PromptIdle
    /\ TmplIdle
    /\ TextIdle

\* One call of check_creative_quality on the chosen findings.
QualCall ==
    /\ qual_out = 0 - 1
    /\ qual_out' = CheckCreativeQuality(qual_in)
    /\ UNCHANGED <<qual_in, pipeline_vars, gen_vars, vid_vars, prompt_vars, tmpl_vars, text_vars>>

QualNext == QualCall

QualSpec == QualInit /\ [][QualNext]_vars

\* --------------------------------------------- _create_dalle_prompt alone
PromptInit ==
    /\ prompt_self \in [calls : {0}, fallback_mode : BOOLEAN]
    /\ prompt_log = <<>>
    /\ env_free = TRUE
    /\ PipelineIdle
    /\ Entry(1, 0, Empty)
    /\ GenIdle
    /\ VidIdle
    /\ QualIdle
    /\ TmplIdle
    /\ TextIdle

\* One call of _create_dalle_prompt from generate_product_image, which has
\* the variation number in scope and passes the brief, the product and the
\* aspect ratio.
PromptCall ==
    /\ Len(prompt_log) < MaxPromptCalls
    /\ \E p \in DOMAIN PromptProducts, b \in DOMAIN PromptBriefs,
          a \in AspectRatio, v \in 1..2 :
          prompt_log' = Append(prompt_log,
              [product |-> p, brief |-> b, aspect_ratio |-> a, variation_num |-> v,
               prompt |-> CreateDallePrompt(prompt_self, PromptBriefs[b],
                                            PromptProducts[p], a)])
    /\ prompt_self' = [prompt_self EXCEPT !.calls = @ + 1]
    /\ UNCHANGED <<pipeline_vars, gen_vars, vid_vars, qual_vars, tmpl_vars, text_vars>>

PromptNext == PromptCall

PromptSpec == PromptInit /\ [][PromptNext]_vars

\* --------------------------------------------------- apply_template alone
TmplInit ==
    /\ tmpl_in \in TmplInputs
    /\ tmpl_out = TmplNotCalled
    /\ env_free = TRUE
    /\ PipelineIdle
    /\ Entry(1, 0, Empty)
    /\ GenIdle
    /\ VidIdle
    /\ QualIdle
    /\ PromptIdle
    /\ TextIdle

\* One call of apply_template on a base image.
TmplCall ==
    /\ ~tmpl_out.called
    /\ tmpl_out' = ApplyTemplate(tmpl_in)
    /\ UNCHANGED <<tmpl_in, pipeline_vars, gen_vars, vid_vars, qual_vars, prompt_vars, text_vars>>

TmplNext == TmplCall

TmplSpec == TmplInit /\ [][TmplNext]_vars

\* ----------------------------------------------- _add_campaign_text alone
TextInit ==
    /\ text_in \in TextInputs
    /\ text_out = TextNotCalled
    /\ env_free = TRUE
    /\ PipelineIdle
    /\ Entry(1, 0, Empty)
    /\ GenIdle
    /\ VidIdle
    /\ QualIdle
    /\ PromptIdle
    /\ TmplIdle

\* One call of _add_campaign_text.
TextCall ==
    /\ ~text_out.called
    /\ text_out' = AddCampaignText(text_in)
    /\ UNCHANGED <<text_in, pipeline_vars, gen_vars, vid_vars, qual_vars, prompt_vars,
                   tmpl_vars>>

TextNext == TextCall

TextSpec == TextInit /\ [][TextNext]_vars

\* ------------------------------------------------------------- properties

\* C1: the summary's total_expected is the number of products times the
\* number of requested aspect ratios, and success_rate is the number of
\* generated creatives divided by total_expected, and 0 when total_expected
\* is 0.
C1_SuccessMetrics ==
    campaign_output # None =>
        LET summary == campaign_output.generation_summary
            rate == summary.success_rate
        IN /\ summary.total_expected = brief.np * Len(brief.aspect_ratios)
           /\ summary.total_generated = Len(generated_creatives)
           /\ campaign_output.success_rate = rate
           /\ rate[2] > 0
           /\ rate[1] * summary.total_expected = Len(generated_creatives) * rate[2]
           /\ (summary.total_expected = 0 => rate[1] = 0)

\* A run of two products and one ratio that kept one creative of two.
C1_Witness ==
    /\ campaign_output # None
    /\ brief.np = 2
    /\ Len(brief.aspect_ratios) = 1
    /\ Len(generated_creatives) = 1
    /\ campaign_output.generation_summary.total_expected = 2
    /\ campaign_output.generation_summary.success_rate = <<1, 2>>

\* C2: process_campaign never raises; failures of directory creation, of
\* the summary write and of every collaborator leave it returning an
\* output.
C2_NeverRaises == pc # "raised"

\* C3: every image slot is attempted whatever happened to the other slots
\* and ends as exactly one creative or exactly one error; with products
\* {A, B}, three ratios and A's generator always failing the run has 3
\* errors, 3 creatives and success_rate 0.5.
C3_ImageSlotIsolation ==
    LET past == pc \in {"video", "hung", "summary", "store_brief", "store_output",
                        "upload_creative", "upload_video", "returned"}
        done(p, k) ==
            \/ past
            \/ pc \in {"product", "slot"} /\ p < product_i
            \/ pc = "slot" /\ p = product_i /\ k < ratio_i
        made(p, k) ==
            Cardinality({i \in DOMAIN generated_creatives :
                            /\ generated_creatives[i].product_name = p
                            /\ generated_creatives[i].variation_num = k})
        failed(p, k) ==
            Cardinality({i \in DOMAIN generation_errors :
                            generation_errors[i] = SlotError("image", p, k)})
        fails(p) == \A i \in DOMAIN image_calls :
                        image_calls[i][1] = p => image_calls[i][3] # "path"
        works(p) == \A k \in DOMAIN brief.aspect_ratios : failed(p, k) = 0
    IN (WantsImages(brief) /\ pc \notin {"start", "raised"}) =>
          /\ \A p \in 1..brief.np, k \in DOMAIN brief.aspect_ratios :
                made(p, k) + failed(p, k) = IF done(p, k) THEN 1 ELSE 0
          /\ (/\ campaign_output # None
              /\ brief.np = 2 /\ Len(brief.aspect_ratios) = 3
              /\ fails(1) /\ works(2))
             => /\ Len(generated_creatives) = 3
                /\ Cardinality({i \in DOMAIN generation_errors :
                                   generation_errors[i].phase = "image"}) = 3
                /\ campaign_output.success_rate = <<1, 2>>

\* Products {A, B} and three ratios, every call for A returned no image.
C3_Witness ==
    /\ pc = "returned"
    /\ brief.np = 2
    /\ Len(brief.aspect_ratios) = 3
    /\ Len(image_calls) = 6
    /\ \A i \in DOMAIN image_calls : image_calls[i][3] = "path" <=> image_calls[i][1] = 2
    /\ Len(generation_errors) = 3
    /\ Len(generated_creatives) = 3
    /\ campaign_output.success_rate = <<1, 2>>

\* C8: with content type IMAGE the video composer is never invoked and the
\* list of videos stays empty (2 products x 3 ratios, every slot succeeding:
\* 6 creatives, 0 videos, total_expected 6); with content type VIDEO the
\* image generator is never invoked and the list of creatives stays empty.
C8_ContentTypeGating ==
    /\ brief.content_type = IMAGE =>
          /\ video_calls = <<>>
          /\ generated_videos = <<>>
          /\ pc # "video"
          /\ (/\ campaign_output # None
              /\ brief.np = 2 /\ Len(brief.aspect_ratios) = 3
              /\ generation_errors = <<>>)
             => /\ campaign_output.total_creatives = 6
                /\ campaign_output.total_videos = 0
                /\ campaign_output.generation_summary.total_expected = 6
    /\ brief.content_type = VIDEO =>
          /\ image_calls = <<>>
          /\ generated_creatives = <<>>
          /\ pc # "slot"

\* An IMAGE run of 2 products x 3 ratios that returned six creatives.
C8_Witness ==
    /\ pc = "returned"
    /\ brief.content_type = IMAGE
    /\ brief.np = 2
    /\ Len(brief.aspect_ratios) = 3
    /\ Len(image_calls) = 6
    /\ campaign_output.total_creatives = 6
    /\ campaign_output.total_videos = 0

\* C9: when the content type includes video, a run that reaches its summary
\* has invoked the video composer exactly once for every (product,
\* requested format).
C9_ComposerOncePerFormat ==
    (/\ WantsVideos(brief)
     /\ pc \in {"summary", "store_brief", "store_output", "upload_creative",
                "upload_video", "returned"})
    => \A p \in 1..brief.np, i \in DOMAIN VideoFormats(brief) :
          Cardinality({j \in DOMAIN video_calls :
                          /\ video_calls[j][1] = p
                          /\ video_calls[j][2] = VideoFormats(brief)[i]}) = 1

\* C10: every GeneratedVideo records the duration, resolution and frame
\* rate of the file its generator produced.
C10_RecordedVideoSpec ==
    \A i \in DOMAIN generated_videos :
        LET video == generated_videos[i]
        IN video.file_path \in DOMAIN fs =>
              fs[video.file_path] =
                  Vid(video.duration, video.width, video.height, video.fps)

\* C4 as stated: generate_product_image never returns null.
C4_NeverNull ==
    gen_out # NotCalled => gen_out.ret # None

\* C4: with fallback_mode enabled generate_product_image never returns null:
\* it returns a file it wrote, or raises when the placeholder could not be
\* written in the try block nor in the except block; with fallback_mode
\* disabled it returns null whenever the AI stage is unavailable or produced
\* nothing, and neither the mock nor the placeholder is tried.
C4_NoNullWithFallback ==
    gen_out # NotCalled =>
        LET ret == gen_out.ret
            tried(stage) == \E i \in DOMAIN gen_out.trace : gen_out.trace[i] = stage
        IN /\ gen_in.fallback_mode =>
                 /\ ret # None
                 /\ ret.kind = "path" => ret \in DOMAIN gen_out.files
                 /\ ret = Raised =>
                        /\ gen_env.simple = "exception" /\ gen_env.retry = "exception"
                        /\ gen_env.simple2 = "exception" /\ gen_env.retry2 = "exception"
           /\ ~gen_in.fallback_mode =>
                 /\ ret # Raised
                 /\ ~tried("download_mock") /\ ~tried("simple")
                 /\ ~gen_in.api_key => ret = None
                 /\ ret.kind = "path" => tried("download_ai") \/ tried("save_generated")

\* No API key, the stock image cannot be fetched: the placeholder is returned.
C4_Witness ==
    /\ gen_out # NotCalled
    /\ gen_in.fallback_mode
    /\ ~gen_in.api_key
    /\ gen_env.mock = "http_error"
    /\ gen_out.ret.kind = "path"
    /\ gen_out.ret.name = "simple"
    /\ gen_out.ret \in DOMAIN gen_out.files

\* C5: every image generate_product_image returns has exactly the pixel
\* size of the requested aspect ratio.
C5_ExactTargetSize ==
    (gen_out # NotCalled /\ gen_out.ret.kind = "path") =>
        /\ gen_out.ret \in DOMAIN gen_out.files
        /\ gen_out.files[gen_out.ret] = TargetSize(gen_in.aspect_ratio)

\* C6 as stated: the avatar-conditioned model is called only after the
\* primary model was called and failed, and only for a portrait request
\* with a selected avatar.
C6_SecondaryAfterPrimary ==
    gen_out # NotCalled =>
        \A i \in DOMAIN gen_out.trace :
            gen_out.trace[i] = "gpt_image_1" =>
                /\ gen_in.aspect_ratio = VERTICAL /\ gen_in.avatar
                /\ \E j \in 1..(i - 1) : gen_out.trace[j] = "dalle3"

\* C6: the chain is one AI model, then the stock-image mock, then the
\* placeholder, each tried only after the stages before it produced
\* nothing.  The AI model is the avatar-conditioned one for a portrait
\* request with a selected avatar and DALL-E 3 for every other request; the
\* two are never called for the same request.
C6_FallbackOrder ==
    gen_out # NotCalled =>
        LET trace == gen_out.trace
            at(stage) == {i \in DOMAIN trace : trace[i] = stage}
            ai_steps == at("dalle3") \cup at("gpt_image_1") \cup at("download_ai")
                           \cup at("save_generated")
            portrait_avatar == gen_in.aspect_ratio = VERTICAL /\ gen_in.avatar
        IN /\ portrait_avatar => at("dalle3") = {}
           /\ ~portrait_avatar => at("gpt_image_1") = {}
           /\ Cardinality(at("dalle3") \cup at("gpt_image_1")) <= 1
           /\ ~gen_in.api_key => ai_steps = {}
           /\ (gen_in.api_key /\ ~portrait_avatar) => trace[1] = "dalle3"
           /\ (gen_in.api_key /\ portrait_avatar /\ gen_env.avatar_file) =>
                  trace[1] = "gpt_image_1"
           /\ \A i \in ai_steps, j \in at("download_mock") \cup at("simple") : i < j
           /\ \A j \in at("simple") : j > 1 /\ trace[j - 1] = "download_mock"
           /\ at("download_mock") # {} =>
                  /\ gen_in.fallback_mode
                  /\ gen_out.ret.kind = "path" =>
                        gen_out.ret.id.site \in {"mock", "simple"}

\* Portrait with avatar: the avatar-conditioned model, then mock, then placeholder.
C6_Witness ==
    /\ gen_out # NotCalled
    /\ gen_in.aspect_ratio = VERTICAL
    /\ gen_in.avatar
    /\ gen_out.trace = <<"gpt_image_1", "download_mock", "simple">>
    /\ gen_out.ret.kind = "path"

\* C7 as stated: no run and no slot ever writes to a path that was written
\* before.
C7_NoPathWrittenTwice == clobbered = {}

\* C7: creative files and base images are named with a freshly drawn id and
\* are never written twice, by a rerun or by another slot; video files are
\* named by the timestamp in seconds and the summary has a fixed name,
\* without an id, and only those are ever overwritten.
C7_FreshIdPaths ==
    LET with_id == {"creative", "generated", "simple"}
    IN /\ \A p \in clobbered : p.name \notin with_id
       /\ \A p \in DOMAIN fs :
             IF p.name \in with_id
             THEN p.id # NoId /\ p.id.u[1] <= run
             ELSE p.id = NoId
       /\ \A i, j \in DOMAIN generated_creatives :
             i # j => generated_creatives[i].file_path # generated_creatives[j].file_path

\* A second run in the same second: both runs' creatives and base images
\* are on disk, the video and the summary of the first run are overwritten.
C7_Witness ==
    /\ run = 2
    /\ now = 0
    /\ pc = "returned"
    /\ Len(generated_creatives) = 1
    /\ Cardinality({p \in DOMAIN fs : p.name = "creative"}) = 2
    /\ Cardinality({p \in DOMAIN fs : p.name = "generated"}) = 2
    /\ SummaryPath \in clobbered
    /\ \E p \in clobbered : p.dir = "videos"

C12_VideoSlotIsolation ==
    LET video_formats == VideoFormats(brief)
        made(p, i) ==
            Cardinality({j \in DOMAIN generated_videos :
                            /\ generated_videos[j].product_name = p
                            /\ generated_videos[j].video_format = video_formats[i]})
        failed(p, i) ==
            Cardinality({j \in DOMAIN generation_errors :
                            generation_errors[j] = SlotError("video", p, i)})
    IN (/\ WantsVideos(brief)
        /\ pc \in {"summary", "store_brief", "store_output", "upload_creative",
                   "upload_video", "returned"})
       => \A p \in 1..brief.np, i \in DOMAIN video_formats :
             made(p, i) + failed(p, i) = 1

\* C13: the local fallback of the video composer always succeeds: when the
\* primary model is disabled, has no credentials or fails, generate_video_ad
\* returns a non-null path to a video file that exists on disk.
C13_LocalFallbackSucceeds ==
    (/\ vid_out # NotCalled
     /\ vid_out.ret # Hung
     /\ ~(vid_in.use_veo3 /\ vid_in.veo3_client /\ vid_env.veo3 = "ok"))
    => /\ vid_out.ret # None
       /\ vid_out.ret \in DOMAIN vid_out.files
       /\ vid_out.files[vid_out.ret].type = "video"

\* C14: persistence is best-effort.  No store operation is invoked when the
\* store is unavailable; a step of the store phase never raises and changes
\* neither the output, the summary, the errors nor the files, and it changes
\* a creative or a video only by setting the remote URL of the one item
\* whose own upload was just made and returned the locator of its file.
C14_BestEffortPersistence ==
    [][/\ ~config.s3_available => store_calls' = <<>>
       /\ pc \in {"store_brief", "store_output", "upload_creative", "upload_video"} =>
             /\ pc' \in {"store_output", "upload_creative", "upload_video", "returned"}
             /\ campaign_output' = campaign_output
             /\ generation_errors' = generation_errors
             /\ fs' = fs
             /\ DOMAIN generated_creatives' = DOMAIN generated_creatives
             /\ DOMAIN generated_videos' = DOMAIN generated_videos
             /\ \A i \in DOMAIN generated_creatives :
                   LET old == generated_creatives[i]
                       new == generated_creatives'[i]
                   IN /\ new = [old EXCEPT !.s3_url = new.s3_url]
                      /\ new.s3_url # old.s3_url =>
                            /\ pc = "upload_creative" /\ i = store_i
                            /\ store_calls' = Append(store_calls, "upload_creative")
                            /\ new.s3_url = [kind |-> "url", of |-> old.file_path]
             /\ \A i \in DOMAIN generated_videos :
                   LET old == generated_videos[i]
                       new == generated_videos'[i]
                   IN /\ new = [old EXCEPT !.s3_url = new.s3_url]
                      /\ new.s3_url # old.s3_url =>
                            /\ pc = "upload_video" /\ i = store_i
                            /\ store_calls' = Append(store_calls, "upload_video")
                            /\ new.s3_url = [kind |-> "url", of |-> old.file_path]
      ]_vars

\* The first creative was uploaded, the upload of the second failed: the run
\* returned both, the second without a remote URL.
C14_Witness ==
    /\ pc = "returned"
    /\ store_calls = <<"store_campaign_brief", "store_campaign_output",
                       "upload_creative", "upload_creative">>
    /\ Len(generated_creatives) = 2
    /\ generated_creatives[1].s3_url = [kind |-> "url", of |-> generated_creatives[1].file_path]
    /\ generated_creatives[2].s3_url = None
    /\ campaign_output.total_creatives = 2

\* C15: a structurally invalid brief (a required field missing, or no
\* product) is rejected when it is constructed: no directory or file is
\* created and no generator, compositor, scorer or store operation is
\* invoked; a valid brief is never rejected.
C15_InvalidBriefRejected ==
    /\ (~brief.complete \/ brief.np = 0) =>
          /\ pc \in {"load", "rejected"}
          /\ fs = Empty
          /\ image_calls = <<>> /\ video_calls = <<>> /\ store_calls = <<>>
          /\ generated_creatives = <<>> /\ generated_videos = <<>>
          /\ campaign_output = None
    /\ (brief.complete /\ brief.np >= 1) => pc # "rejected"

\* A brief with every required field and an empty product list was rejected.
C15_Witness ==
    /\ pc = "rejected"
    /\ brief.complete
    /\ brief.np = 0
    /\ brief.content_type = IMAGE
    /\ Len(brief.aspect_ratios) = 3

\* C16: the score returned by check_creative_quality is in [0, 1] for every
\* combination of sub-check outcomes, sub-checks that fail internally
\* included.
C16_ScoreInUnitInterval ==
    qual_out # 0 - 1 => (0 <= qual_out /\ qual_out <= 10 * Thousand)

\* Every technical test fails (the raw sub-score is -1.0) and the other
\* sub-checks raise: the score is 0.
C16_Witness ==
    /\ qual_out = 0
    /\ qual_in.technical.exists /\ ~qual_in.technical.raises
    /\ ~qual_in.technical.size_ok /\ ~qual_in.technical.resolution_ok
    /\ ~qual_in.technical.aspect_ok /\ ~qual_in.technical.mode_ok
    /\ ~qual_in.technical.verify_ok
    /\ qual_in.brand.raises /\ qual_in.content.raises /\ qual_in.visual.raises

C18_SubCheckContainment ==
    qual_out # 0 - 1 =>
        LET technical == IF qual_in.technical.raises THEN 0
                         ELSE CheckTechnicalQuality(qual_in.technical)
            brand == IF qual_in.brand.raises THEN 0
                     ELSE CheckBrandCompliance(qual_in.brand)
            content == IF qual_in.content.raises THEN 0
                       ELSE CheckContentQuality(qual_in.content)
            visual == IF qual_in.visual.raises THEN 0
                      ELSE CheckVisualQuality(qual_in.visual)
        IN /\ qual_out \in Int
           /\ qual_out = 3 * technical + 3 * brand + 2 * content + 2 * visual
           /\ (qual_in.content.raises /\ ~qual_in.technical.raises
               /\ qual_in.technical.exists) => qual_out >= 3 * technical
           /\ (qual_in.technical.raises /\ ~qual_in.visual.raises) => qual_out >= 2 * 500

\* The content check raises in an otherwise all-pass case: 0.3 + 0.2196 + 0.2.
C18_Witness ==
    /\ qual_in.content.raises
    /\ qual_in.technical = AllPass.technical
    /\ qual_in.brand = AllPass.brand
    /\ qual_in.visual = AllPass.visual
    /\ qual_out = 7196


\* C19: the prompt text is a function of the product, the brief and the
\* aspect ratio alone: any two calls of the prompt builder with the same
\* three inputs return the same text, whatever the variation number, the
\* number of earlier calls and the generator's settings.
C19_PromptDeterminism ==
    \A i, j \in DOMAIN prompt_log :
        (/\ prompt_log[i].product = prompt_log[j].product
         /\ prompt_log[i].brief = prompt_log[j].brief
         /\ prompt_log[i].aspect_ratio = prompt_log[j].aspect_ratio)
        => prompt_log[i].prompt = prompt_log[j].prompt

\* Two calls for the same vertical slot of the avatar brief with different
\* variation numbers, on a generator in fallback mode.
C19_Witness ==
    /\ Len(prompt_log) = 2
    /\ prompt_self.fallback_mode
    /\ prompt_log[1].product = 2 /\ prompt_log[2].product = 2
    /\ prompt_log[1].brief = 2 /\ prompt_log[2].brief = 2
    /\ prompt_log[1].aspect_ratio = VERTICAL /\ prompt_log[2].aspect_ratio = VERTICAL
    /\ prompt_log[1].variation_num = 1 /\ prompt_log[2].variation_num = 2
    /\ prompt_log[1].prompt = prompt_log[2].prompt
    /\ \E k \in DOMAIN prompt_log[2].prompt : prompt_log[2].prompt[k] = "grip"

\* C20: a failure inside compositor stages does not fail the creative: when
\* the base image opens and the save succeeds, apply_template returns True
\* and writes an image that carries the complete layer of every stage that
\* succeeded, in stage order, whichever stages failed.
C20_StagesDegrade ==
    (tmpl_out.called /\ tmpl_in.open = "ok" /\ tmpl_in.save = "ok")
    => /\ tmpl_out.ret = TRUE
       /\ tmpl_out.written
       /\ \A i \in DOMAIN StageNames :
              tmpl_in.stages[i] = "ok"
              => \E k \in DOMAIN tmpl_out.image :
                     tmpl_out.image[k] = Layer(StageNames[i], TRUE)
       /\ \A k, l \in DOMAIN tmpl_out.image :
              k < l => \E i, j \in DOMAIN StageNames :
                          /\ i < j
                          /\ tmpl_out.image[k].stage = StageNames[i]
                          /\ tmpl_out.image[l].stage = StageNames[j]

\* The text stage alone raises before drawing: the image is written with
\* the enhancement, the overlay and the brand mark.
C20_Witness ==
    /\ tmpl_out.called
    /\ tmpl_in.open = "ok" /\ tmpl_in.save = "ok"
    /\ tmpl_in.stages = <<"ok", "ok", "raises", "ok">>
    /\ tmpl_out.ret = TRUE /\ tmpl_out.written
    /\ tmpl_out.image = <<Layer("enhance", TRUE), Layer("overlay", TRUE),
                          Layer("brand", TRUE)>>

\* C21: the text stage calls the translator once when the brief names a
\* language other than "en" and never for "en"; a request is posted only
\* then and only with a credential; and whenever the translation does not
\* succeed (no credential, a response without a usable choice, another
\* status, a transport error or a timeout) the message of the brief is
\* rendered as written.
C21_TranslationFallback ==
    text_out.called =>
        /\ (text_in.language = "en"
                => text_out.translate_calls = 0 /\ text_out.posts = 0)
        /\ (text_in.language \in {"de", "xx"} => text_out.translate_calls = 1)
        /\ text_out.posts = (IF text_out.translate_calls = 1 /\ text_in.api_key
                             THEN 1 ELSE 0)
        /\ (~(text_out.translate_calls = 1 /\ text_in.api_key /\ text_in.response = "ok")
                => text_out.rendered = Text(text_in.campaign_message, ""))
        /\ (text_out.translate_calls = 1 /\ text_in.api_key /\ text_in.response = "ok"
                => text_out.rendered = Text(text_in.campaign_message, text_in.language))

\* A German brief whose translation request times out: one call, one
\* request, the message rendered as written.
C21_Witness ==
    /\ text_out.called
    /\ text_in.language = "de" /\ text_in.api_key /\ text_in.response = "timeout"
    /\ text_out.translate_calls = 1 /\ text_out.posts = 1
    /\ text_out.rendered = Text(text_in.campaign_message, "")

\* C22: every run of process_campaign ends, by returning, by raising or
\* with the brief rejected, whatever the remote collaborators do.
C22_EventuallyReturns == <>(pc \in {"returned", "raised", "rejected"})


\* C23: within one generate_product_image call the AI call, the stock-image
\* download and the placeholder synthesis are each attempted at most once.
C23_EachStageOnce ==
    gen_out # NotCalled =>
        LET trace == gen_out.trace
            at(stages) == {i \in DOMAIN trace : trace[i] \in stages}
        IN /\ Cardinality(at({"dalle3", "gpt_image_1"})) <= 1
           /\ Cardinality(at({"download_mock"})) <= 1
           /\ Cardinality(at({"simple", "simple_retry"})) <= 1

\* C24: the composer is called only after the image phase is over, with
\* the file paths of the product's creatives, and when the primary video
\* model is called for a product that has a creative whose file exists,
\* the first of these files is its starting frame.
C24_VideoConditionedOnImages ==
    /\ (video_calls # <<>> => pc \notin {"load", "start", "product", "slot"})
    /\ \A j \in DOMAIN video_calls :
          LET call == video_calls[j]
          IN /\ call[3] = ProductImages(generated_creatives, call[1])
             /\ (call[4] /\ Len(call[3]) > 0 /\ call[3][1] \in DOMAIN fs)
                    => call[5] = call[3][1]

\* C25: every creative of the run refers to a file that exists on disk, the
\* file the compositor wrote for it.
C25_CreativeFileWritten ==
    \A i \in DOMAIN generated_creatives :
        generated_creatives[i].file_path \in DOMAIN fs

\* C26: the success metrics depend on the image slots only.  A video slot
\* leaves the list of creatives as it is; the summary counts the products
\* times the aspect ratios and the creatives, whatever the videos; a
\* VIDEO-only run reports that product, zero generated and a success rate
\* of 0; and a video slot that produced no video has left an error.
C26_VideoFrame ==
    /\ [](campaign_output # None =>
            LET summary == campaign_output.generation_summary
            IN /\ summary.total_expected = brief.np * Len(brief.aspect_ratios)
               /\ summary.total_generated = Len(generated_creatives)
               /\ summary.success_rate =
                      SuccessRate(Len(generated_creatives),
                                  brief.np * Len(brief.aspect_ratios))
               /\ brief.content_type = VIDEO =>
                      /\ summary.total_generated = 0
                      /\ summary.success_rate = <<0, 1>>
                      /\ campaign_output.success_rate = <<0, 1>>
               /\ (WantsVideos(brief)
                   /\ Len(generated_videos) < brief.np * Len(VideoFormats(brief)))
                      => Len(summary.errors) > 0)
    /\ [][pc = "video" =>
            /\ generated_creatives' = generated_creatives
            /\ Len(generated_videos') + Len(generation_errors')
                  = Len(generated_videos) + Len(generation_errors) + 1
               \/ pc' = "hung"]_vars

\* A VIDEO-only run of one product and three aspect ratios in which one
\* format gave a video and the other an error: three expected, none
\* generated, rate 0.
C26_Witness ==
    /\ campaign_output # None
    /\ brief.content_type = VIDEO
    /\ brief.np = 1 /\ Len(brief.aspect_ratios) = 3
    /\ Len(generated_videos) = 1
    /\ Len(generation_errors) = 1
    /\ campaign_output.generation_summary.total_expected = 3
    /\ campaign_output.generation_summary.total_generated = 0
    /\ campaign_output.generation_summary.success_rate = <<0, 1>>

\* C27: image slots are processed one at a time in product-major,
\* aspect-ratio-minor order.  The slots attempted so far and the creatives
\* are strictly increasing in that order, every creative has the aspect
\* ratio of its slot, a creative is added only by the slot in progress and
\* only at the end of the list, so there are at most P*R creatives and the
\* success rate is at most 1.
C27_SequentialSlots ==
    /\ [](/\ \A i, j \in DOMAIN image_calls :
               i < j => \/ image_calls[i][1] < image_calls[j][1]
                        \/ /\ image_calls[i][1] = image_calls[j][1]
                           /\ image_calls[i][2] < image_calls[j][2]
          /\ \A i, j \in DOMAIN generated_creatives :
               i < j => LET a == generated_creatives[i]
                            b == generated_creatives[j]
                        IN \/ a.product_name < b.product_name
                           \/ /\ a.product_name = b.product_name
                              /\ a.variation_num < b.variation_num
          /\ \A i \in DOMAIN generated_creatives :
               LET c == generated_creatives[i]
               IN /\ c.product_name \in 1..brief.np
                  /\ c.variation_num \in DOMAIN brief.aspect_ratios
                  /\ c.aspect_ratio = brief.aspect_ratios[c.variation_num]
          /\ Len(generated_creatives) <= brief.np * Len(brief.aspect_ratios)
          /\ campaign_output # None =>
               campaign_output.success_rate[1] <= campaign_output.success_rate[2])
    /\ [][Len(generated_creatives') # Len(generated_creatives) =>
            /\ pc = "slot"
            /\ Len(generated_creatives') = Len(generated_creatives) + 1
            /\ SubSeq(generated_creatives', 1, Len(generated_creatives))
                  = generated_creatives
            /\ generated_creatives'[Len(generated_creatives')].product_name = product_i
            /\ generated_creatives'[Len(generated_creatives')].variation_num = ratio_i]_vars

\* Two products and three aspect ratios, all six slots kept: rate 1.
C27_Witness ==
    /\ campaign_output # None
    /\ brief.np = 2 /\ Len(brief.aspect_ratios) = 3
    /\ Len(generated_creatives) = 6
    /\ generated_creatives[3].product_name = 1 /\ generated_creatives[3].variation_num = 3
    /\ generated_creatives[4].product_name = 2 /\ generated_creatives[4].variation_num = 1
    /\ campaign_output.success_rate = <<1, 1>>

C29_OutputConsistent ==
    /\ [](campaign_output # None =>
            /\ campaign_output.total_creatives = Len(generated_creatives)
            /\ campaign_output.total_creatives =
                  campaign_output.generation_summary.total_generated
            /\ campaign_output.total_videos = Len(generated_videos)
            /\ campaign_output.success_rate =
                  campaign_output.generation_summary.success_rate)
    /\ [][campaign_output # None =>
            /\ campaign_output' = campaign_output
            /\ Len(generated_creatives') = Len(generated_creatives)
            /\ Len(generated_videos') = Len(generated_videos)]_vars

\* A returned run with one creative and one video, both uploaded.
C29_Witness ==
    /\ pc = "returned"
    /\ campaign_output # None
    /\ campaign_output.total_creatives = 1
    /\ campaign_output.total_videos = 1
    /\ campaign_output.generation_summary.total_expected = 2
    /\ campaign_output.success_rate = <<1, 2>>
    /\ generated_creatives[1].s3_url # None
    /\ generated_videos[1].s3_url # None

\* C30: the artifact store is invoked only after every slot has finished
\* and the summary file is written, in the order brief, output record,
\* creatives, videos; when the output record is stored no creative and no
\* video has a remote URL yet.
C30_StoreLast ==
    LET kind(call) == CASE call = "store_campaign_brief" -> 1
                        [] call = "store_campaign_output" -> 2
                        [] call = "upload_creative" -> 3
                        [] call = "upload_video" -> 4
        has_url(items) == \E i \in DOMAIN items : items[i].s3_url # None
    IN /\ store_calls # <<>> =>
             /\ pc \in {"store_output", "upload_creative", "upload_video", "returned"}
             /\ campaign_output # None
             /\ SummaryPath \in DOMAIN fs
             /\ store_calls[1] = "store_campaign_brief"
       /\ \A i, j \in DOMAIN store_calls :
             i < j => /\ kind(store_calls[i]) <= kind(store_calls[j])
                      /\ kind(store_calls[j]) <= 2
                            => kind(store_calls[i]) < kind(store_calls[j])
       /\ (has_url(generated_creatives) \/ has_url(generated_videos)) =>
             /\ Len(store_calls) >= 3
             /\ store_calls[2] = "store_campaign_output"
       /\ pc \in {"load", "start", "product", "slot", "video", "summary", "store_brief",
                   "store_output"} =>
             ~has_url(generated_creatives) /\ ~has_url(generated_videos)

\* A returned run that stored the brief, the output record, one creative
\* and one video, in this order.
C30_Witness ==
    /\ pc = "returned"
    /\ store_calls = <<"store_campaign_brief", "store_campaign_output",
                       "upload_creative", "upload_video">>
    /\ generated_creatives[1].s3_url # None
    /\ generated_videos[1].s3_url # None
====
